---- MODULE Spec2Model ----
(***************************************************************************)
(* Model of `brents` (rateslib/cextensions.pyx): a bracketed scalar root   *)
(* finder combining inverse quadratic interpolation, the secant method and *)
(* bisection.  One call of brents(f, x0, x1, max_iter, tolerance) is one   *)
(* behaviour; the program counter pc walks through the body of the         *)
(* function.  Real numbers are exact rationals <<numerator, denominator>>  *)
(* in lowest terms with a positive denominator.                            *)
(***************************************************************************)
EXTENDS Integers, Sequences, FiniteSets, TLC

\* ---------------------------------------------------------------- bounds
\* max_iter is drawn from 0..MaxIterBound
MaxIterBound == 4
\* the input endpoints x0, x1 are integers drawn from -MaxX..MaxX
MaxX == 10

\* ------------------------------------------------- exact real arithmetic
\* the outcome of a division whose denominator is zero (Python raises
\* ZeroDivisionError at that point)
ZeroDiv == <<1, 0>>
\* a local variable that has not been assigned yet
Unbound == <<0, 0>>

IAbs(n) == IF n < 0 THEN -n ELSE n

\* greatest common divisor of two naturals
GCDF[a \in Nat, b \in Nat] == IF b = 0 THEN a ELSE GCDF[b, a % b]
GCD(a, b) == GCDF[a, b]

\* n / m in lowest terms
Rat(n, m) ==
    IF m = 0 THEN ZeroDiv
    ELSE LET g == GCD(IAbs(n), IAbs(m))
             s == IF m < 0 THEN -1 ELSE 1
         IN  <<(s * n) \div g, (s * m) \div g>>

RInt(n) == <<n, 1>>
Zero == RInt(0)

\* The operations are functions on pairs, applied by the operators below, so
\* that every operand is evaluated once.  Sums and comparisons go through the
\* least common denominator and products cancel crosswise first, so that no
\* intermediate is larger than needed.
Pairs == Int \X Int

AddF[a \in Pairs, b \in Pairs] ==
    IF a[2] = 0 \/ b[2] = 0 THEN ZeroDiv
    ELSE LET g == GCD(a[2], b[2])
         IN  Rat(a[1] * (b[2] \div g) + b[1] * (a[2] \div g), (a[2] \div g) * b[2])

MulF[a \in Pairs, b \in Pairs] ==
    IF a[2] = 0 \/ b[2] = 0 THEN ZeroDiv
    ELSE LET g1 == GCD(IAbs(a[1]), b[2])
             g2 == GCD(IAbs(b[1]), a[2])
         IN  <<(a[1] \div g1) * (b[1] \div g2), (a[2] \div g2) * (b[2] \div g1)>>

InvF[b \in Pairs] ==
    IF b[1] = 0 THEN ZeroDiv
    ELSE IF b[1] < 0 THEN <<-b[2], -b[1]>> ELSE <<b[2], b[1]>>

NegF[a \in Pairs] == <<-a[1], a[2]>>

AbsF[a \in Pairs] == <<IAbs(a[1]), a[2]>>

\* -1, 0 or 1 as a < b, a = b or a > b
CmpF[a \in Pairs, b \in Pairs] ==
    LET g == GCD(a[2], b[2])
        l == a[1] * (b[2] \div g)
        r == b[1] * (a[2] \div g)
    IN  IF l < r THEN -1 ELSE IF l = r THEN 0 ELSE 1

RAdd(a, b) == AddF[a, b]
RNeg(a) == NegF[a]
RSub(a, b) == AddF[a, NegF[b]]
RMul(a, b) == MulF[a, b]
RDiv(a, b) == MulF[a, InvF[b]]
RAbs(a) == AbsF[a]
RLt(a, b) == CmpF[a, b] < 0
RLe(a, b) == CmpF[a, b] <= 0
RGt(a, b) == CmpF[a, b] > 0
RGe(a, b) == CmpF[a, b] >= 0

\* ------------------------------------------------- objective functions
\* the caller-supplied callables f the model draws from
Functions == {"lin5", "decr", "absm", "step", "zero"}

Apply(fn, x) ==
    CASE fn = "lin5" -> RSub(x, RInt(5))
      [] fn = "absm" -> RSub(RAbs(x), RInt(4))
      [] fn = "decr" -> RSub(RInt(3), RMul(RInt(2), x))
      [] fn = "step" -> IF RLt(x, RInt(3)) THEN RInt(-1) ELSE RInt(1)
      [] fn = "zero" -> RMul(x, Zero)

\* the tolerances the model draws from
Tolerances == {<<1, 2>>, <<1, 1>>}

\* ---------------------------------------------------------------- state
VARIABLES
    pc,           \* position in the body of brents
    f,            \* argument f (a name in Functions)
    max_iter,     \* argument max_iter
    tolerance,    \* argument tolerance
    x0, x1,       \* the current endpoints (arguments, reassigned in the loop)
    fx0, fx1,     \* function values as last evaluated
    x2, fx2,      \* previous best and its value
    d,            \* the x2 of the iteration before
    mflag,        \* bisection flag
    steps_taken,  \* iteration counter
    new, fnew,    \* candidate of the current iteration and its value
    in0, in1,     \* history: the endpoints as passed by the caller
    calls,        \* history: the arguments f has been called with, in order
    bodies        \* history: number of completed loop bodies

vars == <<pc, f, max_iter, tolerance, x0, x1, fx0, fx1, x2, fx2, d, mflag,
          steps_taken, new, fnew, in0, in1, calls, bodies>>

\* before the call: no argument and no local variable is bound
Init ==
    /\ pc = "call"
    /\ f = "none"
    /\ max_iter = 0
    /\ tolerance = Unbound
    /\ x0 = Unbound /\ x1 = Unbound
    /\ in0 = Unbound /\ in1 = Unbound
    /\ fx0 = Unbound /\ fx1 = Unbound
    /\ x2 = Unbound /\ fx2 = Unbound
    /\ d = Unbound
    /\ mflag = FALSE
    /\ steps_taken = 0
    /\ new = Unbound /\ fnew = Unbound
    /\ calls = <<>>
    /\ bodies = 0

\* ------------------------------------------------------ lines 2-8
\* the caller binds the arguments of brents(f, x0, x1, max_iter, tolerance)
Call ==
    /\ pc = "call"
    /\ f' \in Functions
    /\ max_iter' \in 0..MaxIterBound
    /\ tolerance' \in Tolerances
    /\ \E a \in -MaxX..MaxX, b \in -MaxX..MaxX :
          /\ x0' = RInt(a) /\ x1' = RInt(b)
          /\ in0' = RInt(a) /\ in1' = RInt(b)
    /\ pc' = "start"
    /\ UNCHANGED <<fx0, fx1, x2, fx2, d, mflag, steps_taken, new, fnew,
                   calls, bodies>>

\* ------------------------------------------------------ lines 9-15
\* line 12: float(fx0 * fx1) > 0
InvalidBracketMut(a, b) == RGe(RMul(a, b), Zero)
InvalidBracket(a, b) == RGt(RMul(a, b), Zero)

\* lines 9-15: evaluate both endpoints, raise ValueError on same strict sign
RaiseInvalidBracket ==
    /\ pc = "start"
    /\ InvalidBracket(Apply(f, x0), Apply(f, x1))
    /\ fx0' = Apply(f, x0)
    /\ fx1' = Apply(f, x1)
    /\ calls' = calls \o <<x0, x1>>
    /\ pc' = "raised"
    /\ UNCHANGED <<f, max_iter, tolerance, x0, x1, x2, fx2, d, mflag,
                   steps_taken, new, fnew, in0, in1, bodies>>

\* ------------------------------------------------------ lines 17-24
\* line 17: abs(fx0) < abs(fx1)
InitialSwapMut(a, b) == RLe(RAbs(a), RAbs(b))
InitialSwap(a, b) == RLt(RAbs(a), RAbs(b))

\* line 23: mflag = True
InitMflagMut == FALSE
InitMflag == TRUE

\* lines 9-24: evaluate both endpoints, pass the check, put the endpoint with
\* the smaller |f| in x1, initialise x2, fx2, mflag, steps_taken
Normalize ==
    /\ pc = "start"
    /\ ~InvalidBracket(Apply(f, x0), Apply(f, x1))
    /\ calls' = calls \o <<x0, x1>>
    /\ LET a == Apply(f, x0)
           b == Apply(f, x1)
       IN  IF InitialSwap(a, b)
           THEN /\ x0' = x1 /\ x1' = x0
                /\ fx0' = b /\ fx1' = a
                /\ x2' = x1 /\ fx2' = b
           ELSE /\ x0' = x0 /\ x1' = x1
                /\ fx0' = a /\ fx1' = b
                /\ x2' = x0 /\ fx2' = a
    /\ mflag' = InitMflag
    /\ steps_taken' = 0
    /\ pc' = "loop"
    /\ UNCHANGED <<f, max_iter, tolerance, d, new, fnew, in0, in1, bodies>>

\* ------------------------------------------------------ line 26, line 64
\* line 26: steps_taken < max_iter and abs(x1 - x0) > tolerance
LoopCondMut == steps_taken <= max_iter /\ RGt(RAbs(RSub(x1, x0)), tolerance)
LoopCond == steps_taken < max_iter /\ RGt(RAbs(RSub(x1, x0)), tolerance)

LoopEnter ==
    /\ pc = "loop"
    /\ LoopCond
    /\ pc' = "body"
    /\ UNCHANGED <<f, max_iter, tolerance, x0, x1, fx0, fx1, x2, fx2, d,
                   mflag, steps_taken, new, fnew, in0, in1, calls, bodies>>

\* line 64: return x1, steps_taken
Return ==
    /\ pc = "loop"
    /\ ~LoopCond
    /\ pc' = "done"
    /\ UNCHANGED <<f, max_iter, tolerance, x0, x1, fx0, fx1, x2, fx2, d,
                   mflag, steps_taken, new, fnew, in0, in1, calls, bodies>>

\* ------------------------------------------------------ lines 27-38
\* line 31: fx0 != fx2 and fx1 != fx2
UseInterpolation(a, b, c) == a # c /\ b # c

\* lines 32-35: inverse quadratic interpolation
Interpolate(p0, p1, p2, a, b, c) ==
    LET L0 == RDiv(RMul(RMul(p0, b), c), RMul(RSub(a, b), RSub(a, c)))
        L1 == RDiv(RMul(RMul(p1, a), c), RMul(RSub(b, a), RSub(b, c)))
        L2 == RDiv(RMul(RMul(p2, b), a), RMul(RSub(c, a), RSub(c, b)))
    IN  RAdd(RAdd(L0, L1), L2)

\* line 38: secant step
SecantMut(p0, p1, a, b) ==
    IF a = b THEN RDiv(RAdd(p0, p1), RInt(2))
    ELSE RSub(p1, RDiv(RMul(b, RSub(p1, p0)), RSub(b, a)))
Secant(p0, p1, a, b) == RSub(p1, RDiv(RMul(b, RSub(p1, p0)), RSub(b, a)))

\* lines 31-38 on freshly evaluated values
CandidateOf(p0, p1, p2, a, b, c) ==
    IF UseInterpolation(a, b, c) THEN Interpolate(p0, p1, p2, a, b, c)
    ELSE Secant(p0, p1, a, b)

\* lines 27-29: fx0 = f(x0); fx1 = f(x1); fx2 = f(x2)
Evaluate ==
    /\ fx0' = Apply(f, x0)
    /\ fx1' = Apply(f, x1)
    /\ fx2' = Apply(f, x2)
    /\ calls' = calls \o <<x0, x1, x2>>

\* lines 27-38, no denominator is zero
Candidate ==
    /\ pc = "body"
    /\ Evaluate
    /\ LET c == CandidateOf(x0, x1, x2, Apply(f, x0), Apply(f, x1), Apply(f, x2))
       IN  /\ c # ZeroDiv
           /\ new' = c
    /\ pc' = "accept"
    /\ UNCHANGED <<f, max_iter, tolerance, x0, x1, x2, d, mflag, steps_taken,
                   fnew, in0, in1, bodies>>

\* lines 27-38, a denominator is zero: ZeroDivisionError leaves the function
ZeroDivision ==
    /\ pc = "body"
    /\ Evaluate
    /\ CandidateOf(x0, x1, x2, Apply(f, x0), Apply(f, x1), Apply(f, x2)) = ZeroDiv
    /\ pc' = "zerodiv"
    /\ UNCHANGED <<f, max_iter, tolerance, x0, x1, x2, d, mflag, steps_taken,
                   new, fnew, in0, in1, bodies>>

\* ------------------------------------------------------ lines 40-49
\* line 40: float(new) < float((3 * x0 + x1) / 4) or float(new) > float(x1)
OutOfRangeTwoSided(n, p0, p1) ==
    LET q == RDiv(RAdd(RMul(RInt(3), p0), p1), RInt(4))
    IN  IF RLe(p0, p1) THEN RLt(n, q) \/ RGt(n, p1)
        ELSE RGt(n, q) \/ RLt(n, p1)
OutOfRange(n, p0, p1) ==
    \/ RLt(n, RDiv(RAdd(RMul(RInt(3), p0), p1), RInt(4)))
    \/ RGt(n, p1)

\* lines 42 and 44 are the only places that read d; `or` and `and` short-
\* circuit, so they are evaluated exactly when line 40 is false and mflag
\* is False
ReadsD == ~OutOfRange(new, x0, x1) /\ mflag = FALSE

\* lines 40-44: the whole rejection condition, for a bound d where it is read
Rejected ==
    \/ OutOfRange(new, x0, x1)
    \/ mflag = TRUE /\ RGe(RAbs(RSub(new, x1)), RDiv(RAbs(RSub(x1, x2)), RInt(2)))
    \/ mflag = FALSE /\ RGe(RAbs(RSub(new, x1)), RDiv(RAbs(RSub(x2, d)), RInt(2)))
    \/ mflag = TRUE /\ RLt(RAbs(RSub(x1, x2)), tolerance)
    \/ mflag = FALSE /\ RLt(RAbs(RSub(x2, d)), tolerance)

\* line 45: new = (x0 + x1) / 2
BisectMut(p0, p1) == RAdd(p0, RDiv(p1, RInt(2)))
Bisect(p0, p1) == RDiv(RAdd(p0, p1), RInt(2))

\* lines 40-46: the candidate is rejected, bisect
Reject ==
    /\ pc = "accept"
    /\ ~(ReadsD /\ d = Unbound)
    /\ Rejected
    /\ new' = Bisect(x0, x1)
    /\ mflag' = TRUE
    /\ pc' = "update"
    /\ UNCHANGED <<f, max_iter, tolerance, x0, x1, fx0, fx1, x2, fx2, d,
                   steps_taken, fnew, in0, in1, calls, bodies>>

\* lines 40-49: the candidate is kept.  Reading d while it is unbound raises
\* UnboundLocalError and leaves the function.
Accept ==
    /\ pc = "accept"
    /\ IF ReadsD /\ d = Unbound
       THEN /\ pc' = "unbound"
            /\ UNCHANGED mflag
       ELSE /\ ~Rejected
            /\ mflag' = FALSE
            /\ pc' = "update"
    /\ UNCHANGED <<f, max_iter, tolerance, x0, x1, fx0, fx1, x2, fx2, d,
                   steps_taken, new, fnew, in0, in1, calls, bodies>>

\* ------------------------------------------------------ lines 51-62
\* line 54: float(fx0 * fnew) < 0
RootInLeft(a, fn) == RLt(RMul(a, fn), Zero)

\* line 59: abs(fx0) < abs(fx1), on the values evaluated at lines 27-28
StaleSwap(a, b) == RLt(RAbs(a), RAbs(b))

\* lines 51-62: evaluate the candidate, shift the history, replace one
\* endpoint, swap the endpoints, count the iteration
Update ==
    /\ pc = "update"
    /\ fnew' = Apply(f, new)
    /\ calls' = Append(calls, new)
    /\ d' = x2
    /\ x2' = x1
    /\ LET n0 == IF RootInLeft(fx0, Apply(f, new)) THEN x0 ELSE new
           n1 == IF RootInLeft(fx0, Apply(f, new)) THEN new ELSE x1
       IN  IF StaleSwap(fx0, fx1)
           THEN x0' = n1 /\ x1' = n0
           ELSE x0' = n0 /\ x1' = n1
    /\ steps_taken' = steps_taken + 1
    /\ bodies' = bodies + 1
    /\ pc' = "loop"
    /\ UNCHANGED <<f, max_iter, tolerance, fx0, fx1, fx2, mflag, new,
                   in0, in1>>

\* ------------------------------------------------------ specification
Next ==
    \/ Call
    \/ RaiseInvalidBracket
    \/ Normalize
    \/ LoopEnter
    \/ Return
    \/ Candidate
    \/ ZeroDivision
    \/ Reject
    \/ Accept
    \/ Update

Spec == Init /\ [][Next]_vars

\* brents is sequential code: whenever a statement is enabled it is executed
FairSpec == Spec /\ WF_vars(Next)

\* ------------------------------------------------------ properties
\* helpers of the properties below
Width == RAbs(RSub(x1, x0))
Lo == IF RLe(in0, in1) THEN in0 ELSE in1
Hi == IF RLe(in0, in1) THEN in1 ELSE in0
InSpan(x) == x[2] # 0 /\ RLe(Lo, x) /\ RLe(x, Hi)
Between(x, p, q) == (RLe(p, x) /\ RLe(x, q)) \/ (RLe(q, x) /\ RLe(x, p))
Sign(a) == IF a[1] > 0 THEN 1 ELSE IF a[1] < 0 THEN -1 ELSE 0
\* the product of the function values at the caller's endpoints is > 0
EntrySameSign == Sign(Apply(f, in0)) * Sign(Apply(f, in1)) = 1
\* the call passed the check of line 12
Passed == pc \notin {"call", "start", "raised"}

\* C1: the call raises the ValueError of line 13 exactly when
\* f(x0) * f(x1) > 0; when it raises, no loop body has run and f has been
\* called exactly twice, at x0 and then at x1; when the product is zero or
\* negative the next position is the loop test of line 26.
C1_InvalidBracketIff ==
    /\ [](pc \notin {"call", "start"} =>
            /\ (pc = "raised") <=> EntrySameSign
            /\ pc = "raised" =>
                 bodies = 0 /\ steps_taken = 0 /\ calls = <<in0, in1>>)
    /\ [][pc = "start" /\ ~EntrySameSign => pc' = "loop"]_vars

C1_Witness == pc = "raised" /\ calls = <<in0, in1>> /\ in0 # in1

\* C2: brents(x - 5, 0, 10) returns an estimate within tolerance of 5 once
\* the width test of line 26 has ended the loop.
C2_LinearConverges ==
    (/\ pc = "done" /\ f = "lin5" /\ in0 = RInt(0) /\ in1 = RInt(10)
     /\ RLe(Width, tolerance))
    => RLe(RAbs(RSub(x1, RInt(5))), tolerance)

\* C3: after the normalisation of lines 17-19 and after every loop body,
\* |f(x0)| >= |f(x1)|.
C3_BestEstimate ==
    pc \in {"loop", "done"} => RGe(RAbs(Apply(f, x0)), RAbs(Apply(f, x1)))

\* C4: a call that passes the check of line 12 returns unless a denominator
\* is zero; at most max_iter loop bodies run; at return steps_taken is the
\* number of completed loop bodies, 0 <= steps_taken <= max_iter, and either
\* steps_taken = max_iter or |x1 - x0| <= tolerance.
C4_Terminates ==
    /\ (pc = "loop") ~> (pc \in {"done", "zerodiv"})
    /\ [](bodies <= max_iter)
    /\ [](pc = "done" =>
            /\ steps_taken = bodies
            /\ 0 <= steps_taken /\ steps_taken <= max_iter
            /\ (steps_taken = max_iter \/ RLe(Width, tolerance)))

C4_Witness ==
    pc = "done" /\ 0 < steps_taken /\ steps_taken < max_iter

\* C5: when the check of line 12 passes and max_iter = 0 or
\* |x0 - x1| <= tolerance at entry, no loop body runs and the call returns
\* (b, 0), b being the caller's endpoint with the smaller |f| (the caller's
\* x1 on a tie), whether or not f(b) is zero.
ZeroIterationCase ==
    max_iter = 0 \/ RLe(RAbs(RSub(in0, in1)), tolerance)
InitialBest ==
    IF RLt(RAbs(Apply(f, in0)), RAbs(Apply(f, in1))) THEN in0 ELSE in1

C5_ZeroIterationReturn ==
    (Passed /\ ZeroIterationCase) =>
        /\ pc \in {"loop", "done"}
        /\ bodies = 0 /\ steps_taken = 0 /\ Len(calls) = 2
        /\ x1 = InitialBest

C5_Witness ==
    /\ pc = "done" /\ max_iter > 0 /\ in0 # in1
    /\ RLe(RAbs(RSub(in0, in1)), tolerance)
    /\ Apply(f, x1) # Zero
    /\ x1 = InitialBest /\ steps_taken = 0

\* C6: when f(x0) * f(x1) < 0 at entry, after every loop body the endpoints
\* still satisfy f(x0) * f(x1) <= 0.
C6_BracketPreserved ==
    (/\ pc = "loop" /\ bodies > 0
     /\ Sign(Apply(f, in0)) * Sign(Apply(f, in1)) = -1)
    => Sign(Apply(f, x0)) * Sign(Apply(f, x1)) <= 0

\* C7: d is bound whenever the acceptance test reads it (lines 42 and 44),
\* which happens only after a completed loop body; mflag is True during the
\* acceptance test of the first iteration.
C7_DBoundBeforeRead ==
    /\ pc # "unbound"
    /\ (pc = "accept" /\ ReadsD) => (d # Unbound /\ bodies >= 1)
    /\ (pc = "accept" /\ bodies = 0) => mflag = TRUE

C7_Witness == pc = "accept" /\ ReadsD /\ d # Unbound

\* C8: x0, x1 and x2 stay in the closed interval spanned by the caller's
\* endpoints; the value of new that is used (after lines 40-49) lies in the
\* closed interval between the current x0 and x1; |x1 - x0| never grows; the
\* returned x1 lies in the caller's interval.
C8_Containment ==
    /\ [](Passed => InSpan(x0) /\ InSpan(x1) /\ InSpan(x2))
    /\ [](pc = "update" => Between(new, x0, x1))
    /\ [][pc # "call" => RLe(RAbs(RSub(x1', x0')), Width)]_vars

C8_Witness ==
    /\ pc = "update" /\ mflag = FALSE
    /\ new # x0 /\ new # x1 /\ Between(new, x0, x1)

\* C9: in an iteration that starts with x0 > x1 the range test of line 40 is
\* true, the step is the midpoint and mflag is True afterwards; a candidate
\* is kept (mflag False) only in an iteration that starts with x0 <= x1.
C9_OrientationDependence ==
    /\ (pc = "accept" /\ RGt(x0, x1)) =>
          \/ RLt(new, RDiv(RAdd(RMul(RInt(3), x0), x1), RInt(4)))
          \/ RGt(new, x1)
    /\ (pc = "update" /\ RGt(x0, x1)) =>
          mflag = TRUE /\ RAdd(new, new) = RAdd(x0, x1)
    /\ (pc = "update" /\ mflag = FALSE) => RLe(x0, x1)

C9_Witness ==
    pc = "update" /\ RGt(x0, x1) /\ mflag = TRUE /\ new # ZeroDiv

\* C10: the secant step of line 38 divides by f(x1) - f(x0) without testing
\* it: no iteration goes on past line 38 when the secant branch is taken
\* with f(x1) = f(x0); such an iteration is reachable from a call that
\* passes the check of line 12.
SecantTaken == ~(fx0 # fx2 /\ fx1 # fx2)

C10_ZeroDenominatorUnguarded ==
    pc \in {"accept", "update"} => ~(SecantTaken /\ fx1 = fx0)

C10_Witness ==
    /\ pc = "zerodiv" /\ SecantTaken
    /\ fx0 = Zero /\ fx1 = Zero
    /\ ~EntrySameSign
    /\ max_iter >= 1 /\ RGt(Width, tolerance)

====
